---- MODULE Spec2Model ----
(***************************************************************************)
(* Two editor add-ons of the repository.                                   *)
(*                                                                         *)
(*  - The tag highlighter (src/unnamed/part_002): updateDecorations passes *)
(*    over visible plaintext editors, the CACHE of file contents guarded   *)
(*    by modification time, and the reference-counted WATCHERS table.      *)
(*  - The prompt builder (src/unnamed/part_001): expandedKeys, the shared  *)
(*    global-flag TAG_REGEX, the peek-open command, the handler of         *)
(*    visible-editor changes and refreshAllOpenTextEditors.                *)
(*                                                                         *)
(* A document text is abstracted to the sequence of its tag occurrences.   *)
(* A file's content is identified by the version of the file it was read   *)
(* from; every modification makes a new version with a new modification    *)
(* time, so the modification time of version v is v. Content 0 is ''.       *)
(***************************************************************************)
EXTENDS Integers, Sequences, FiniteSets, TLC

\* ------------------------------------------------------------------ bounds
\* updateDecorations passes in flight at one time
MaxInflight == 2
\* largest reference count a watcher registration reaches
MaxRefs == 3
\* newest version a target file reaches
MaxVer == 2

\* ------------------------------------------------------------ the universe
Editors == {"e1", "e2"}
Paths == {"p", "q"}
\* the document texts, as the resolved paths of their tags in document order
Texts == { <<>>, <<"p">> }

VARIABLES
  \* --- tag highlighter
  text,        \* text[e]: the document shown by visible editor e
  active,      \* vscode.window.activeTextEditor
  fileVer,     \* fileVer[p]: version (modification time and content) of file p
  WATCHERS,    \* path -> [refs]
  live,        \* live[p]: undisposed file-system watchers on p
  pending,     \* paths with a change event not yet delivered to their watcher
  CACHE,       \* path -> [mtimeMs, text]
  passes,      \* the updateDecorations calls in flight, in the order they started
  shown,       \* shown[e]: the decorations last applied to e
  timer,       \* the debounce timer is pending
  \* --- prompt builder
  ptext,       \* ptext[d]: the text of open .txt document d
  previews,    \* targets of the visible editors of the preview scheme
  expandedKeys,\* the keys <<document, startOffset>> marked expanded
  lastIndex,   \* TAG_REGEX.lastIndex
  refreshes,   \* async bodies of refreshAllOpenTextEditors in flight
  fileDecos,   \* fileDecos[d]: offsets highlighted as existing in d
  expDecos,    \* expDecos[d]: offsets highlighted as expanded in d
  cmds,        \* prompt-builder.openInlinePeek commands in flight
  \* --- settings and file system of the tag highlighter
  cfg,         \* the tagHighlighter configuration
  kind,        \* kind[p]: what the file system holds at path p
  \* --- the tag highlighter, character by character
  pattern,     \* the tagHighlighter.pattern setting, '' when unset
  srcText,     \* the characters of the active document
  matches,     \* what the scan of updateDecorations found, once it ran
  preview,     \* the openVirtualPreview call in flight
  substituted, \* the text of the virtual document, once it is built
  \* --- messages of the prompt builder
  errors,      \* calls of vscode.window.showErrorMessage so far
  \* --- path resolution of the tag highlighter
  resolving    \* a call of toAbsolute: its arguments and, once made, its result

thVars == << text, active, fileVer, WATCHERS, live, pending, CACHE, passes,
             shown, timer >>

pbVars == << ptext, previews, expandedKeys, lastIndex, refreshes, fileDecos,
             expDecos, cmds >>

\* what the handlers of both add-ons leave alone unless they say otherwise
chVars == << pattern, srcText, matches, preview, substituted >>

auxVars == << cfg, kind, chVars, errors, resolving >>

vars == << thVars, pbVars, auxVars >>

\* ---------------------------------------------------------------- helpers
\* Map.delete(k)
MapDelete(f, k) == [x \in DOMAIN f \ {k} |-> f[x]]

\* Map.set(k, v)
MapSet(f, k, v) == [x \in DOMAIN f \cup {k} |-> IF x = k THEN v ELSE f[x]]

EmptyMap == [x \in {} |-> 0]

\* the sequence s without its k-th element
RemoveAt(s, k) == [i \in 1..(Len(s) - 1) |-> IF i < k THEN s[i] ELSE s[i + 1]]

\* ------------------------------------------------------- watcher reference
\* The tables the watcher functions act on, as one value.
Tables == [W |-> WATCHERS, L |-> live, C |-> CACHE, P |-> pending]

\* retainWatcher creating a watcher of its own on every call
RetainWatcherUnshared(s, p) ==
  IF p \in DOMAIN s.W
    THEN [s EXCEPT !.W[p].refs = @ + 1, !.L[p] = @ + 1]
    ELSE [s EXCEPT !.W = MapSet(s.W, p, [refs |-> 1]),
                   !.L[p] = @ + 1]

\* retainWatcher(absPath, onAnyChange)
RetainWatcher(s, p) ==
  IF p \in DOMAIN s.W
    THEN [s EXCEPT !.W[p].refs = @ + 1]
    ELSE [s EXCEPT !.W = MapSet(s.W, p, [refs |-> 1]),
                   !.L[p] = @ + 1]

\* the test that ends a registration, one release late
LastRefLate(refs) == refs < 0

\* info.refs <= 0, the test that ends a registration
LastRef(refs) == refs <= 0

\* releaseWatcher(absPath); watcher.dispose() also drops the events the
\* host has not delivered yet
ReleaseWatcher(s, p) ==
  IF p \notin DOMAIN s.W
    THEN s
    ELSE IF LastRef(s.W[p].refs - 1)
      THEN [s EXCEPT !.W = MapDelete(s.W, p),
                     !.L[p] = @ - 1,
                     !.C = MapDelete(s.C, p),
                     !.P = @ \ {p}]
      ELSE [s EXCEPT !.W[p].refs = @ - 1]

\* for (const [p, info] of WATCHERS) if (!needed.has(p)) releaseWatcher(p)
RECURSIVE ReleaseLoop(_, _, _)
ReleaseLoop(s, todo, needed) ==
  IF todo = {}
    THEN s
    ELSE LET p == CHOOSE x \in todo : TRUE
         IN ReleaseLoop(IF p \in needed THEN s ELSE ReleaseWatcher(s, p),
                        todo \ {p}, needed)

\* no call of toAbsolute is looked at
NotResolving == [inner |-> <<>>, sep |-> ":", out |-> <<>>]

\* ------------------------------------------------ settings and file kinds
\* cfg.get('maxBytes') ?? 8192
DefaultMaxBytes == 8192

\* the options updateDecorations reads, at their defaults
DefaultCfg ==
  [ onlyExisting |-> TRUE, showInline |-> TRUE, showHover |-> TRUE,
    maxBytes |-> DefaultMaxBytes ]

\* What a path holds: a readable file, a directory, a file that cannot be
\* read (permission denied), or nothing.
Kinds == {"file", "dir", "locked", "none"}

\* pathExists: stat succeeds and isFile() || isDirectory(); a throw is false
Exists(k) == k \in {"file", "dir", "locked"}

\* fs.stat throws
StatFails(k) == k = "none"

\* fs.readFile throws
ReadFails(k) == k # "file"

\* the bytes of version v of a file, one character each ('' for content 0);
\* the first version holds a tag itself
Bytes(v) ==
  IF v = 0 THEN <<>>
  ELSE IF v = 1 THEN << "<", "<", "a", ">", ">" >>
  ELSE [i \in 1..v |-> "a"]

\* buf.byteLength
Size(v) == Len(Bytes(v))

\* if (maxBytes && buf.byteLength > maxBytes) buf = buf.subarray(0, maxBytes)
Truncate(n, maxBytes) == IF maxBytes # 0 /\ n > maxBytes THEN maxBytes ELSE n

\* a callback that never returns early
ExcludedNever(c, exists) == FALSE

\* if (onlyExisting && !exists) return
Excluded(c, exists) == c.onlyExisting /\ ~exists

\* what the callback pushes to inlineDecos: an instruction that carries
\* the content ("text"), one that carries the missing placeholder
\* ("missing"), or nothing ("none")
Render(c, exists) ==
  IF c.showInline \/ c.showHover
    THEN IF exists THEN "text" ELSE "missing"
    ELSE "none"

\* ------------------------------------------------ updateDecorations: start
\* One occurrence's async callback, suspended at `await pathExists`.
\* pc: the await it is suspended at; iss: the file's version when
\* readFileTruncated was called; st: the stat's mtimeMs; buf: the file's
\* version when fs.readFile was called; out, txt: what it pushed to
\* inlineDecos; hit: readFileTruncated answered from CACHE; ex: what
\* pathExists answered; len: bytes of the text readFileTruncated returned;
\* fail: readFileTruncated caught an error
NewTask(p) ==
  [ path |-> p, pc |-> "exists", st |-> 0, buf |-> 0, iss |-> 0,
    out |-> "pending", txt |-> 0, hit |-> FALSE, ex |-> FALSE, len |-> 0,
    fail |-> FALSE ]

\* The synchronous head of updateDecorations(editor): configuration, text
\* snapshot, scan, and every occurrence's callback up to its first await.
NewPass(e) ==
  [ ed |-> e, snap |-> text[e], needed |-> {}, late |-> FALSE, cfg |-> cfg,
    tasks |-> [i \in 1..Len(text[e]) |-> NewTask(text[e][i])] ]

\* updateAll: one pass per visible plaintext editor, in order
UpdateAll(ps) == ps \o << NewPass("e1"), NewPass("e2") >>

\* occurrences of p in t
Count(t, p) == Cardinality({i \in DOMAIN t : t[i] = p})

\* retainWatcher calls for p that the passes in flight can still make
Unretained(p) ==
  Cardinality({ki \in (DOMAIN passes) \X (1..2) :
                 /\ ki[2] \in DOMAIN passes[ki[1]].tasks
                 /\ passes[ki[1]].tasks[ki[2]].path = p
                 /\ passes[ki[1]].tasks[ki[2]].pc = "exists"})

Refs(p) == IF p \in DOMAIN WATCHERS THEN WATCHERS[p].refs ELSE 0

\* the model's bounds leave room for passes over the editors es
CanStart(es) ==
  /\ Len(passes) + Cardinality(es) <= MaxInflight
  /\ \A p \in Paths :
       LET new == IF "e1" \in es THEN Count(text["e1"], p) ELSE 0
           new2 == IF "e2" \in es THEN Count(text["e2"], p) ELSE 0
       IN Refs(p) + Unretained(p) + new + new2 <= MaxRefs

\* ------------------------------------------------------- readFileTruncated
\* a hit test that trusts the entry without comparing modification times
CacheHitUnchecked(C, p, st) == p \in DOMAIN C

\* cached && cached.mtimeMs === st.mtimeMs
CacheHit(C, p, st) == p \in DOMAIN C /\ C[p].mtimeMs = st

\* ------------------------------------------------------------------- Init
NoDecorations == <<>>

\* activate() has returned: updateAll has started a pass for each editor
InitWith(docs) ==
  /\ text = docs
  /\ active \in Editors
  /\ fileVer = [p \in Paths |-> 1]
  /\ WATCHERS = EmptyMap
  /\ live = [p \in Paths |-> 0]
  /\ pending = {}
  /\ CACHE = EmptyMap
  /\ passes = UpdateAll(<<>>)
  /\ shown = [e \in Editors |-> NoDecorations]
  /\ timer = FALSE

InitHighlighter == \E docs \in [Editors -> Texts] : InitWith(docs)

\* ---------------------------------------------------------- editor events
\* onDidChangeTextDocument: the user edits the document of editor e
Edit(e, t) ==
  /\ t # text[e]
  /\ text' = [text EXCEPT ![e] = t]
  /\ timer' = (timer \/ e = active)
  /\ UNCHANGED << pbVars, auxVars, active, fileVer, WATCHERS, live, pending, CACHE, passes,
                  shown >>

\* onDidSaveTextDocument
Save ==
  /\ timer' = TRUE
  /\ UNCHANGED << pbVars, auxVars, text, active, fileVer, WATCHERS, live, pending, CACHE,
                  passes, shown >>

\* onDidChangeConfiguration: disposing the decoration types removes what
\* they drew in every editor
ConfigChange ==
  /\ shown' = [e \in Editors |-> NoDecorations]
  /\ timer' = TRUE
  /\ UNCHANGED << pbVars, auxVars, text, active, fileVer, WATCHERS, live, pending, CACHE,
                  passes >>

\* the settings the user can choose
Cfgs ==
  [ onlyExisting : BOOLEAN, showInline : BOOLEAN, showHover : BOOLEAN,
    maxBytes : {0, 1, DefaultMaxBytes} ]

\* the user changes the settings to c: onDidChangeConfiguration
Reconfigure(c) ==
  /\ c # cfg
  /\ cfg' = c
  /\ shown' = [e \in Editors |-> NoDecorations]
  /\ timer' = TRUE
  /\ UNCHANGED << pbVars, kind, chVars, errors, resolving,
                  text, active, fileVer, WATCHERS, live,
                  pending, CACHE, passes >>

\* onDidChangeActiveTextEditor
ActiveChange(e) ==
  /\ e # active
  /\ CanStart({e})
  /\ active' = e
  /\ passes' = Append(passes, NewPass(e))
  /\ UNCHANGED << pbVars, auxVars, text, fileVer, WATCHERS, live, pending, CACHE, shown,
                  timer >>

\* the debounce timer fires: updateAll
TimerFire ==
  /\ timer
  /\ CanStart(Editors)
  /\ timer' = FALSE
  /\ passes' = UpdateAll(passes)
  /\ UNCHANGED << pbVars, auxVars, text, active, fileVer, WATCHERS, live, pending, CACHE,
                  shown >>

\* ------------------------------------------------------------ file system
\* a target file is modified on disk; undisposed watchers will be told
FileChange(p) ==
  /\ fileVer[p] < MaxVer
  /\ fileVer' = [fileVer EXCEPT ![p] = @ + 1]
  /\ pending' = IF live[p] > 0 THEN pending \cup {p} ELSE pending
  /\ UNCHANGED << pbVars, auxVars, text, active, WATCHERS, live, CACHE, passes, shown, timer >>

\* the file at p is deleted, created, locked or replaced by a directory;
\* undisposed watchers will be told
KindChange(p, k) ==
  /\ k # kind[p]
  /\ kind' = [kind EXCEPT ![p] = k]
  /\ pending' = IF live[p] > 0 THEN pending \cup {p} ELSE pending
  /\ UNCHANGED << pbVars, cfg, chVars, errors, resolving,
                  text, active, fileVer, WATCHERS, live,
                  CACHE, passes, shown, timer >>

\* the watcher of p delivers its event: the callback given to retainWatcher
WatchEvent(p) ==
  /\ p \in pending
  /\ live[p] > 0
  /\ CanStart({active})
  /\ pending' = pending \ {p}
  /\ CACHE' = MapDelete(CACHE, p)
  /\ passes' = Append(passes, NewPass(active))
  /\ UNCHANGED << pbVars, auxVars, text, active, fileVer, WATCHERS, live, shown, timer >>

\* ------------------------------------------- updateDecorations: occurrences
SetTask(k, i, t) == [passes EXCEPT ![k].tasks[i] = t]

Finished(t, out, txt) ==
  [t EXCEPT !.pc = "done", !.out = out, !.txt = txt, !.st = 0, !.buf = 0]

\* an error of fs.stat or fs.readFile escaping readFileTruncated: the
\* occurrence's callback rejects
Uncaught(t, c) == [t EXCEPT !.pc = "thrown", !.fail = TRUE]

\* catch { return '' } of readFileTruncated: the callback goes on with the
\* empty text, its `exists` still true
Caught(t, c) == [Finished(t, Render(c, TRUE), 0) EXCEPT !.fail = TRUE]

\* `await pathExists` returns. An occurrence that is excluded returns; one
\* that exists is needed, its watcher retained and readFileTruncated
\* called; one that does not exist goes on with the empty text
TaskExists(k, i) ==
  /\ k \in DOMAIN passes
  /\ i \in DOMAIN passes[k].tasks
  /\ LET t == passes[k].tasks[i]
         c == passes[k].cfg
         exists == Exists(kind[t.path])
         s == IF exists THEN RetainWatcher(Tables, t.path) ELSE Tables
     IN /\ t.pc = "exists"
        /\ passes' =
             IF Excluded(c, exists)
               THEN SetTask(k, i, Finished(t, "none", 0))
               ELSE IF exists
                 THEN [passes EXCEPT
                         ![k].needed = @ \cup {t.path},
                         ![k].tasks[i] = [t EXCEPT !.pc = "rstat",
                                                    !.ex = TRUE,
                                                    !.iss = fileVer[t.path]]]
                 ELSE SetTask(k, i, Finished(t, Render(c, FALSE), 0))
        /\ WATCHERS' = s.W
        /\ live' = s.L
  /\ UNCHANGED << pbVars, auxVars, text, active, fileVer, pending, CACHE, shown, timer >>

\* readFileTruncated resumes after `await fs.stat`. A stat that throws is
\* caught. Otherwise the stat saw the file at some moment since the call,
\* so st is one of the versions the file has had since then; a hit returns
\* cached.text (the decoration is pushed), a miss calls fs.readFile
TaskStat(k, i) ==
  /\ k \in DOMAIN passes
  /\ i \in DOMAIN passes[k].tasks
  /\ LET t == passes[k].tasks[i]
         c == passes[k].cfg
     IN /\ t.pc = "rstat"
        /\ IF StatFails(kind[t.path])
             THEN passes' = SetTask(k, i, Caught(t, c))
             ELSE \E st \in t.iss..fileVer[t.path] :
                    passes' = SetTask(k, i,
                      IF CacheHit(CACHE, t.path, st)
                        THEN [Finished(t, Render(c, TRUE), CACHE[t.path].text)
                                EXCEPT !.hit = TRUE,
                                       !.len = CACHE[t.path].len]
                        ELSE [t EXCEPT !.pc = "rread", !.st = st,
                                       !.buf = fileVer[t.path]])
  /\ UNCHANGED << pbVars, auxVars, text, active, fileVer, WATCHERS, live, pending, CACHE,
                  shown, timer >>

\* readFileTruncated resumes after `await fs.readFile`. A read that throws
\* is caught. Otherwise the content is one of the versions the file has
\* had since the call (t.buf); it is truncated, CACHE.set, and the text is
\* returned (the decoration is pushed)
TaskRead(k, i) ==
  /\ k \in DOMAIN passes
  /\ i \in DOMAIN passes[k].tasks
  /\ LET t == passes[k].tasks[i]
         c == passes[k].cfg
     IN /\ t.pc = "rread"
        /\ IF ReadFails(kind[t.path])
             THEN /\ passes' = SetTask(k, i, Caught(t, c))
                  /\ UNCHANGED CACHE
             ELSE \E buf \in t.buf..fileVer[t.path] :
                    LET n == Truncate(Size(buf), c.maxBytes)
                    IN /\ CACHE' = MapSet(CACHE, t.path,
                                          [mtimeMs |-> t.st, text |-> buf,
                                           len |-> n])
                       /\ passes' = SetTask(k, i,
                            [Finished(t, Render(c, TRUE), buf)
                               EXCEPT !.len = n])
  /\ UNCHANGED << pbVars, auxVars, text, active, fileVer, WATCHERS, live, pending, shown,
                  timer >>

\* ------------------------------------------- updateDecorations: the tail
\* the passes left in flight when the k-th has applied; those of the same
\* editor that started before it have been overtaken
Overtake(ps, k) ==
  RemoveAt([j \in DOMAIN ps |->
              IF j < k /\ ps[j].ed = ps[k].ed
                THEN [ps[j] EXCEPT !.late = TRUE]
                ELSE ps[j]], k)

\* inlineDecos of a pass whose occurrences have all finished, in document
\* order: the tag, what is drawn for it and the text that is drawn
Plan(ps) ==
  [i \in DOMAIN ps.tasks |->
     [path |-> ps.tasks[i].path, out |-> ps.tasks[i].out,
      txt |-> ps.tasks[i].txt]]

\* Promise.all has resolved: setDecorations, then the release loop
Apply(k) ==
  /\ k \in DOMAIN passes
  /\ LET ps == passes[k]
         s == ReleaseLoop(Tables, DOMAIN WATCHERS, ps.needed)
     IN /\ \A i \in DOMAIN ps.tasks : ps.tasks[i].pc = "done"
        /\ shown' = [shown EXCEPT ![ps.ed] = Plan(ps)]
        /\ WATCHERS' = s.W
        /\ live' = s.L
        /\ CACHE' = s.C
        /\ pending' = s.P
        /\ passes' = Overtake(passes, k)
  /\ UNCHANGED << pbVars, auxVars, text, active, fileVer, timer >>

\* no document is looked at character by character
CharsIdle ==
  /\ pattern = ""
  /\ srcText = <<>>
  /\ matches = <<>>
  /\ preview = <<>>
  /\ substituted = <<>>

\* the default settings, every target a readable file
AuxIdle ==
  /\ cfg = DefaultCfg
  /\ kind = [p \in Paths |-> "file"]
  /\ CharsIdle
  /\ errors = 0
  /\ resolving = NotResolving

\* the highlighter before any of its editors holds a tag
HighlighterIdle ==
  /\ text = [e \in Editors |-> <<>>]
  /\ active = "e1"
  /\ fileVer = [p \in Paths |-> 1]
  /\ WATCHERS = EmptyMap
  /\ live = [p \in Paths |-> 0]
  /\ pending = {}
  /\ CACHE = EmptyMap
  /\ passes = <<>>
  /\ shown = [e \in Editors |-> NoDecorations]
  /\ timer = FALSE

\* ======================================================== prompt builder
\* the open .txt documents, in the order of vscode.workspace.textDocuments;
\* both are shown in visible editors, d1 in the active one
Docs == <<"d1", "d2">>
DocSet == {"d1", "d2"}
PActive == "d1"
\* the targets tags resolve to (all exist), in the order their preview
\* editors appear among the visible editors
Targets == <<"x", "y">>

\* A text is its length and its tags in document order: where TAG_REGEX
\* matches (at, up to end) and the path the match resolves to.
TagX == [at |-> 0, end |-> 7, target |-> "x"]
TagY == [at |-> 7, end |-> 14, target |-> "y"]
NoTags == [len |-> 5, tags |-> <<>>]
OneTag == [len |-> 7, tags |-> <<TagX>>]
TwoTags == [len |-> 14, tags |-> <<TagX, TagY>>]
\* the texts each document takes
PTexts == [d1 |-> {NoTags, TwoTags}, d2 |-> {NoTags, OneTag}]

\* makeKey(docUri, startOffset)
makeKey(d, off) == << d, off >>

\* TAG_REGEX.exec(txt) with TAG_REGEX.lastIndex = li: the first match at or
\* after li (m, an index into txt.tags; 0 is null) and the new lastIndex
RegexExec(txt, li) ==
  LET cand == {i \in DOMAIN txt.tags : txt.tags[i].at >= li}
  IN IF li > txt.len \/ cand = {}
       THEN [m |-> 0, li |-> 0]
       ELSE LET i == CHOOSE x \in cand : \A y \in cand : x <= y
            IN [m |-> i, li |-> txt.tags[i].end]

\* while ((match = TAG_REGEX.exec(text))) ...: the matches of a loop that
\* starts with lastIndex = li and has no await; it leaves lastIndex = 0
RECURSIVE ScanLoop(_, _)
ScanLoop(txt, li) ==
  LET r == RegexExec(txt, li)
  IN IF r.m = 0 THEN <<>> ELSE << txt.tags[r.m] >> \o ScanLoop(txt, r.li)

\* the <<preview target, document>> pairs the handler scans, in its order
ScanPairs(V) ==
  LET ts == SelectSeq(Targets, LAMBDA t : t \in V)
  IN [j \in 1..(Len(ts) * Len(Docs)) |->
        << ts[((j - 1) \div Len(Docs)) + 1], Docs[((j - 1) % Len(Docs)) + 1] >>]

\* presentPreviewKeys of the handler of onDidChangeVisibleTextEditors, run
\* with the preview editors of V visible and TAG_REGEX.lastIndex = li
PresentPreviewKeys(V, li) ==
  LET pairs == ScanPairs(V)
  IN UNION { LET t == pairs[j][1]
                 d == pairs[j][2]
                 found == ScanLoop(ptext[d], IF j = 1 THEN li ELSE 0)
             IN { makeKey(d, found[n].at) :
                    n \in {n \in DOMAIN found : found[n].target = t} }
             : j \in DOMAIN pairs }

\* what refreshAllOpenTextEditors works on, as one value
Screen == [li |-> lastIndex, tasks |-> refreshes, fd |-> fileDecos,
           ed |-> expDecos]

\* refreshAllOpenTextEditors for one visible editor: the first loop runs
\* to its end (lastIndex = 0), then the async body runs up to its first
\* await, or to its end when the text has no tag
RefreshEditor(s, d, txt) ==
  LET r == RegexExec(txt, 0)
  IN IF r.m = 0
       THEN [s EXCEPT !.li = 0, !.fd[d] = {}, !.ed[d] = {}]
       ELSE [s EXCEPT !.li = r.li,
                      !.tasks = Append(@, [doc |-> d, text2 |-> txt,
                                           cur |-> r.m, file |-> {},
                                           exp |-> {}])]

\* refreshAllOpenTextEditors() with the documents' texts txts
RefreshAll(s, txts) ==
  RefreshEditor(RefreshEditor(s, Docs[1], txts[Docs[1]]), Docs[2], txts[Docs[2]])

\* async bodies a call of refreshAllOpenTextEditors leaves suspended
Tagged(txts) == Cardinality({d \in DocSet : txts[d].tags # <<>>})

\* ------------------------------------------------------------------ bounds
\* async bodies of refreshAllOpenTextEditors in flight at one time
MaxRefresh == 2
\* peek-open commands in flight at one time
MaxCmds == 1

CanRefresh(txts) == Len(refreshes) + Tagged(txts) <= MaxRefresh

\* activate() has returned: no key, the initial refresh is under way
InitPeek ==
  /\ ptext \in [DocSet -> UNION {PTexts[d] : d \in DocSet}]
  /\ \A d \in DocSet : ptext[d] \in PTexts[d]
  /\ previews = {}
  /\ expandedKeys = {}
  /\ cmds = {}
  /\ LET s == RefreshAll([li |-> 0, tasks |-> <<>>,
                          fd |-> [d \in DocSet |-> {}],
                          ed |-> [d \in DocSet |-> {}]], ptext)
     IN /\ lastIndex = s.li
        /\ refreshes = s.tasks
        /\ fileDecos = s.fd
        /\ expDecos = s.ed

\* the prompt builder before any document holds a tag
PeekIdle ==
  /\ ptext = [d \in DocSet |-> NoTags]
  /\ previews = {}
  /\ expandedKeys = {}
  /\ cmds = {}
  /\ lastIndex = 0
  /\ refreshes = <<>>
  /\ fileDecos = [d \in DocSet |-> {}]
  /\ expDecos = [d \in DocSet |-> {}]

\* the handler of onDidChangeVisibleTextEditors, called with the preview
\* editors of V among the visible editors
VisibleHandler(V) ==
  LET keys == PresentPreviewKeys(V, lastIndex)
      s == RefreshAll([Screen EXCEPT !.li = IF V = {} THEN lastIndex ELSE 0],
                      ptext)
  IN /\ CanRefresh(ptext)
     /\ previews' = V
     /\ expandedKeys' = keys
     /\ lastIndex' = s.li
     /\ refreshes' = s.tasks
     /\ fileDecos' = s.fd
     /\ expDecos' = s.ed

\* the user closes preview editors
ClosePreview(V) ==
  /\ V \subseteq previews
  /\ V # previews
  /\ VisibleHandler(V)
  /\ UNCHANGED << thVars, auxVars, ptext, cmds >>

\* the user clicks the link of tag i of document d:
\* prompt-builder.openInlinePeek up to its awaits
PeekStart(d, i) ==
  /\ i \in DOMAIN ptext[d].tags
  /\ Cardinality(cmds) < MaxCmds
  /\ cmds' = cmds \cup {[key |-> makeKey(d, ptext[d].tags[i].at),
                         target |-> ptext[d].tags[i].target,
                         malformed |-> FALSE, pc |-> "peek"]}
  /\ UNCHANGED << thVars, auxVars, ptext, previews, expandedKeys, lastIndex,
                  refreshes, fileDecos, expDecos >>

\* The command called with arguments of its caller's choice. form: one
\* string that JSON.parse accepts ("json"), one string it rejects ("text"),
\* the arguments themselves ("direct"); value: what is parsed or passed,
\* not an array ("scalar"), an array of fewer than four elements ("short"),
\* of four or more ("full"); uri, end_, path: whether the first, third and
\* fourth element is what the command expects, the second being an offset
\* of a tag.
Invocations ==
  [ form : {"json", "text", "direct"}, value : {"scalar", "short", "full"},
    uri : BOOLEAN, end_ : BOOLEAN, path : BOOLEAN ]

\* the arguments are not a document identifier, two offsets and a path
Malformed(a) ==
  a.form = "text" \/ a.value # "full" \/ ~a.uri \/ ~a.end_ \/ ~a.path

\* !Array.isArray(args) || args.length < 4, args being maybeArgs itself
\* when JSON.parse throws
Rejected(a) == a.form = "text" \/ a.value # "full"

\* the try block throws before it changes anything: the document of the
\* first element cannot be opened, path.basename rejects the fourth
Throws(a) == ~a.uri \/ ~a.path

\* showErrorMessage is counted up to MaxErrors
MaxErrors == 2

\* prompt-builder.openInlinePeek called with the malformed arguments a,
\* that name tag i of document d where they name anything: up to its
\* return or its awaits
PeekInvoke(d, i, a) ==
  /\ Malformed(a)
  /\ i \in DOMAIN ptext[d].tags
  /\ IF Rejected(a) \/ Throws(a)
       THEN /\ errors < MaxErrors
            /\ errors' = errors + 1
            /\ cmds' = cmds
       ELSE /\ Cardinality(cmds) < MaxCmds
            /\ errors' = errors
            /\ cmds' = cmds \cup {[key |-> makeKey(d, ptext[d].tags[i].at),
                                    target |-> ptext[d].tags[i].target,
                                    malformed |-> TRUE, pc |-> "peek"]}
  /\ UNCHANGED << thVars, cfg, kind, chVars, resolving, ptext, previews,
                  expandedKeys,
                  lastIndex, refreshes, fileDecos, expDecos >>

\* editor.action.peekLocations shows the preview of the command's target
\* and the command's await is resolved; the visible editors change unless
\* the preview is visible already
PeekShown(c) ==
  /\ c \in cmds
  /\ c.pc = "peek"
  /\ IF c.target \in previews
       THEN UNCHANGED << previews, expandedKeys, lastIndex, refreshes,
                         fileDecos, expDecos >>
       ELSE VisibleHandler(previews \cup {c.target})
  /\ cmds' = (cmds \ {c}) \cup {[c EXCEPT !.pc = "resume"]}
  /\ UNCHANGED << thVars, auxVars, ptext >>

\* the command resumes: expandedKeys.add(key); refreshAllOpenTextEditors()
PeekResume(c) ==
  /\ c \in cmds
  /\ c.pc = "resume"
  /\ CanRefresh(ptext)
  /\ expandedKeys' = expandedKeys \cup {c.key}
  /\ LET s == RefreshAll(Screen, ptext)
     IN /\ lastIndex' = s.li
        /\ refreshes' = s.tasks
        /\ fileDecos' = s.fd
        /\ expDecos' = s.ed
  /\ cmds' = cmds \ {c}
  /\ UNCHANGED << thVars, auxVars, ptext, previews >>

\* onDidChangeTextDocument: the text of d becomes t; a change of the
\* active editor's document refreshes
PeekEdit(d, t) ==
  /\ t # ptext[d]
  /\ ptext' = [ptext EXCEPT ![d] = t]
  /\ IF d = PActive
       THEN /\ CanRefresh(ptext')
            /\ LET s == RefreshAll(Screen, ptext')
               IN /\ lastIndex' = s.li
                  /\ refreshes' = s.tasks
                  /\ fileDecos' = s.fd
                  /\ expDecos' = s.ed
       ELSE UNCHANGED << lastIndex, refreshes, fileDecos, expDecos >>
  /\ UNCHANGED << thVars, auxVars, previews, expandedKeys, cmds >>

\* a body that does not push the highlight of an existing file
FileDecoSkipped(t, tag) == t.file

\* fileDecos2.push({ range }) after `await fs.access(targetPath)`
FileDeco(t, tag) == t.file \cup {tag.at}

\* if (expandedKeys.has(key)) expDecos2.push({ range })
ExpDeco(t, tag, keys) ==
  IF makeKey(t.doc, tag.at) \in keys THEN t.exp \cup {tag.at} ELSE t.exp

\* an async body resumes after `await fs.access` (the target exists):
\* pushes its decorations, then calls TAG_REGEX.exec again; on null it
\* applies its decorations
RefreshStep(j) ==
  /\ j \in DOMAIN refreshes
  /\ LET t == refreshes[j]
         tag == t.text2.tags[t.cur]
         file == FileDeco(t, tag)
         exp == ExpDeco(t, tag, expandedKeys)
         r == RegexExec(t.text2, lastIndex)
     IN /\ lastIndex' = r.li
        /\ IF r.m = 0
             THEN /\ fileDecos' = [fileDecos EXCEPT ![t.doc] = file]
                  /\ expDecos' = [expDecos EXCEPT ![t.doc] = exp]
                  /\ refreshes' = RemoveAt(refreshes, j)
             ELSE /\ refreshes' = [refreshes EXCEPT ![j] =
                                     [t EXCEPT !.cur = r.m, !.file = file,
                                               !.exp = exp]]
                  /\ UNCHANGED << fileDecos, expDecos >>
  /\ UNCHANGED << thVars, auxVars, ptext, previews, expandedKeys, cmds >>

\* ------------------------------------------- the document as characters
\* the characters documents and patterns are made of here
Alphabet == {"<", ">", "a", " "}

\* the characters of Alphabet in the class [A-Za-z0-9._\-/:\\]
PathChars == {"a"}

\* the characters of Alphabet in the class [^<>]
NotAngle == {"a", " "}

\* the default of tagHighlighter.pattern as the README documents it
DocumentedPattern == "<<[^<>]+?>>"

\* the pattern updateDecorations uses when the setting is empty
ClassPattern == "<<[A-Za-z0-9._\\-/:\\\\]+?>>"

\* a pattern new RegExp rejects: an unterminated character class
BrokenPattern == "<<["

\* a pattern of tags that may be empty inside
EmptyTagPattern == "<<[^<>]*?>>"

\* a pattern that matches the empty string
StarPattern == "a*"

\* the values of the setting ('' is unset)
Patterns ==
  {"", DocumentedPattern, ClassPattern, BrokenPattern, EmptyTagPattern,
   StarPattern}

\* new RegExp(src, 'g') does not throw
Compiles(src) == src # BrokenPattern

\* the class of characters a pattern repeats
ClassOf(src) ==
  IF src \in {DocumentedPattern, EmptyTagPattern} THEN NotAngle ELSE PathChars

\* new RegExp(src, 'g'). The regular expressions here are a lazy run of a
\* class between << and >> ("tag") or a greedy run of a class alone ("run");
\* min is the least length of the run.
Regex(src) ==
  [ form |-> IF src = StarPattern THEN "run" ELSE "tag",
    class |-> ClassOf(src),
    min |-> IF src \in {EmptyTagPattern, StarPattern} THEN 0 ELSE 1 ]

\* safeRegex(src): the catch returns /<<[A-Za-z0-9._\-/:\\]+?>>/g
safeRegex(src) == IF Compiles(src) THEN Regex(src) ELSE Regex(ClassPattern)

\* cfg.get('pattern') || '<<[A-Za-z0-9._\\-/:\\\\]+?>>'
Configured(src) == IF src = "" THEN ClassPattern ELSE src

\* the character of s at 0-based offset i
CharAt(s, i) == IF i + 1 \in DOMAIN s THEN s[i + 1] ELSE ""

\* the lengths n of a run of class characters at offset i + 2 of s that
\* "<<" precedes and ">>" follows
Runs(re, s, i) ==
  { n \in re.min..Len(s) :
      /\ CharAt(s, i) = "<" /\ CharAt(s, i + 1) = "<"
      /\ \A j \in 0..(n - 1) : CharAt(s, i + 2 + j) \in re.class
      /\ CharAt(s, i + 2 + n) = ">" /\ CharAt(s, i + 3 + n) = ">" }

\* the length of the longest run of class characters at offset i of s
RECURSIVE Greedy(_, _, _)
Greedy(re, s, i) ==
  IF CharAt(s, i) \in re.class THEN 1 + Greedy(re, s, i + 1) ELSE 0

\* the least element of a non-empty set of numbers
Least(S) == CHOOSE x \in S : \A y \in S : x <= y

\* pattern.exec(s) with pattern.lastIndex = from: the leftmost match at or
\* after from, its run the shortest one (+? is lazy), or null
RegExpExec(re, s, from) ==
  LET at == { i \in from..(Len(s) - 1) : Runs(re, s, i) # {} }
  IN IF re.form = "run"
       THEN IF from > Len(s)
              THEN [found |-> FALSE, index |-> 0, len |-> 0]
              ELSE [found |-> TRUE, index |-> from, len |-> Greedy(re, s, from)]
       ELSE IF at = {}
         THEN [found |-> FALSE, index |-> 0, len |-> 0]
         ELSE [found |-> TRUE, index |-> Least(at),
               len |-> 4 + Least(Runs(re, s, Least(at)))]

\* a loop that leaves lastIndex where exec put it
AdvanceNever(m) == m.index + m.len

\* lastIndex after a match: if (m.index === pattern.lastIndex) lastIndex++
Advance(m) ==
  IF m.index = m.index + m.len THEN m.index + m.len + 1 ELSE m.index + m.len

\* full.slice(2, -2)
Inner(s, m) == SubSeq(s, m.index + 3, m.index + m.len - 2)

\* the turns a loop over exec is followed for: one more than it takes
\* when every turn moves lastIndex on
Turns(s) == Len(s) + 2

\* the while loop of updateDecorations over pattern.exec(text), cut off
\* after n more turns
RECURSIVE ScanTurns(_, _, _, _)
ScanTurns(re, s, from, n) ==
  LET m == RegExpExec(re, s, from)
  IN IF ~m.found \/ n = 0
       THEN <<>>
       ELSE << [index |-> m.index, len |-> m.len, inner |-> Inner(s, m)] >>
              \o ScanTurns(re, s, Advance(m), n - 1)

ScanText(re, s, from) == ScanTurns(re, s, from, Turns(s))

\* toAbsolute(baseDir, inner, sep) names p when the tag is <<a>> and the
\* directory of the document when the inner string is empty; no other
\* name of the directory is taken
KindOf(inner) ==
  IF inner = << "a" >> THEN kind["p"]
  ELSE IF inner = <<>> THEN "dir"
  ELSE "none"

\* `<<MISSING:${inner}>>`
MissingMarker(inner) ==
  << "<", "<", "M", "I", "S", "S", "I", "N", "G", ":" >> \o inner \o << ">", ">" >>

\* readFileTruncated(p, maxBytes), all of it: the text returned and the
\* cache left behind
ReadFileTruncated(cache, p, maxBytes) ==
  IF StatFails(kind[p])
    THEN [text |-> <<>>, cache |-> cache]
    ELSE IF CacheHit(cache, p, fileVer[p])
      THEN [text |-> SubSeq(Bytes(cache[p].text), 1, cache[p].len),
            cache |-> cache]
      ELSE IF ReadFails(kind[p])
        THEN [text |-> <<>>, cache |-> cache]
        ELSE LET n == Truncate(Size(fileVer[p]), maxBytes)
             IN [text |-> SubSeq(Bytes(fileVer[p]), 1, n),
                 cache |-> MapSet(cache, p,
                             [mtimeMs |-> fileVer[p], text |-> fileVer[p],
                              len |-> n])]

\* readFileTruncated(abs, maxBytes) for the target of a tag: the file p, or
\* the directory of the document, that readFile rejects and the cache
\* never holds
ReadTarget(cache, inner, maxBytes) ==
  IF inner = << "a" >>
    THEN ReadFileTruncated(cache, "p", maxBytes)
    ELSE [text |-> <<>>, cache |-> cache]

\* onDidChangeTextDocument, character by character: the user makes the
\* text t, and what was scanned and built is of the text before
SrcEdit(t) ==
  /\ t # srcText
  /\ preview = <<>>
  /\ srcText' = t
  /\ matches' = <<>>
  /\ substituted' = <<>>
  /\ UNCHANGED << thVars, pbVars, cfg, kind, errors, resolving,
                  pattern, preview >>

\* the scan of updateDecorations over the characters of the document
Scan ==
  /\ matches = <<>>
  /\ matches' = << ScanText(safeRegex(Configured(pattern)), srcText, 0) >>
  /\ UNCHANGED << thVars, pbVars, cfg, kind, errors, resolving,
                  pattern, srcText, preview,
                  substituted >>

\* tagHighlighter.openVirtualPreview, up to its loop
PreviewStart ==
  /\ preview = <<>>
  /\ substituted = <<>>
  /\ preview' = << [ re |-> safeRegex(Configured(pattern)),
                     maxBytes |-> cfg.maxBytes, chunks |-> <<>>,
                     last |-> 0, lastIndex |-> 0, turns |-> 0 ] >>
  /\ UNCHANGED << thVars, pbVars, cfg, kind, errors, resolving,
                  pattern, srcText,
                  matches, substituted >>

\* one turn of the loop of openVirtualPreview
PreviewStep ==
  /\ preview # <<>>
  /\ LET v == preview[1]
         m == RegExpExec(v.re, srcText, v.lastIndex)
         inner == Inner(srcText, m)
         r == ReadTarget(CACHE, inner, v.maxBytes)
         before == SubSeq(srcText, v.last + 1, m.index)
     IN /\ m.found
        /\ v.turns < Turns(srcText)
        /\ IF Exists(KindOf(inner))
             THEN /\ CACHE' = r.cache
                  /\ preview' = << [v EXCEPT !.chunks = @ \o before \o r.text,
                                             !.last = m.index + m.len,
                                             !.lastIndex = Advance(m),
                                             !.turns = @ + 1] >>
             ELSE /\ CACHE' = CACHE
                  /\ preview' = << [v EXCEPT
                                      !.chunks = @ \o before \o MissingMarker(inner),
                                      !.last = m.index + m.len,
                                      !.lastIndex = Advance(m),
                                      !.turns = @ + 1] >>
  /\ UNCHANGED << pbVars, cfg, kind, errors, resolving,
                  pattern, srcText, matches,
                  substituted, text, active, fileVer, WATCHERS, live, pending, passes,
                  shown, timer >>

\* a preview that writes what it built into the document
PreviewEndInPlace ==
  /\ preview # <<>>
  /\ LET v == preview[1]
     IN /\ ~RegExpExec(v.re, srcText, v.lastIndex).found
        /\ substituted' =
             << v.chunks \o SubSeq(srcText, v.last + 1, Len(srcText)) >>
  /\ srcText' = substituted'[1]
  /\ preview' = <<>>
  /\ UNCHANGED << thVars, pbVars, cfg, kind, errors, resolving,
                  pattern, matches >>

\* pattern.exec returns null: the rest of the text, and the document shown
PreviewEnd ==
  /\ preview # <<>>
  /\ LET v == preview[1]
     IN /\ ~RegExpExec(v.re, srcText, v.lastIndex).found
        /\ substituted' =
             << v.chunks \o SubSeq(srcText, v.last + 1, Len(srcText)) >>
  /\ preview' = <<>>
  /\ UNCHANGED << thVars, pbVars, cfg, kind, errors, resolving,
                  pattern, srcText,
                  matches >>

PassIds == 1..(MaxInflight + 1)
TaskIds == 1..2

NextHighlighter ==
  \/ \E e \in Editors, t \in Texts : Edit(e, t)
  \/ Save
  \/ ConfigChange
  \/ \E e \in Editors : ActiveChange(e)
  \/ TimerFire
  \/ FileChange("p")
  \/ \E p \in Paths : WatchEvent(p)
  \/ \E k \in PassIds, i \in TaskIds : TaskExists(k, i)
  \/ \E k \in PassIds, i \in TaskIds : TaskStat(k, i)
  \/ \E k \in PassIds, i \in TaskIds : TaskRead(k, i)
  \/ \E k \in PassIds : Apply(k)

InitH == AuxIdle /\ InitHighlighter /\ PeekIdle

SpecHighlighter == InitH /\ [][NextHighlighter]_vars

\* The documents stay as they are (e1 holds a tag of p, e2 none) and the
\* user only switches between the two editors while the file of p changes.
InitWatch ==
  /\ AuxIdle
  /\ InitWith([e \in Editors |-> IF e = "e1" THEN <<"p">> ELSE <<>>])
  /\ PeekIdle

NextWatch ==
  \/ \E e \in Editors : ActiveChange(e)
  \/ FileChange("p")
  \/ \E p \in Paths : WatchEvent(p)
  \/ \E k \in PassIds, i \in TaskIds : TaskExists(k, i)
  \/ \E k \in PassIds, i \in TaskIds : TaskStat(k, i)
  \/ \E k \in PassIds, i \in TaskIds : TaskRead(k, i)
  \/ \E k \in PassIds : Apply(k)

SpecWatch == InitWatch /\ [][NextWatch]_vars

\* The documents stay as they are (e1 holds a tag of p, e2 a tag of q), the
\* user leaves the editors alone and the file of p changes.
InitPaths ==
  /\ AuxIdle
  /\ InitWith([e \in Editors |-> IF e = "e1" THEN <<"p">> ELSE <<"q">>])
  /\ PeekIdle

NextPaths ==
  \/ FileChange("p")
  \/ \E p \in Paths : WatchEvent(p)
  \/ \E k \in PassIds, i \in TaskIds : TaskExists(k, i)
  \/ \E k \in PassIds, i \in TaskIds : TaskStat(k, i)
  \/ \E k \in PassIds, i \in TaskIds : TaskRead(k, i)
  \/ \E k \in PassIds : Apply(k)

SpecPaths == InitPaths /\ [][NextPaths]_vars

\* One editor holds a tag of p and a tag of q; the settings are any, what
\* p holds is any and changes while the passes that activate() started
\* run; q stays a readable file.
InitPass ==
  /\ cfg \in Cfgs
  /\ kind \in [Paths -> Kinds]
  /\ kind["q"] = "file"
  /\ CharsIdle
  /\ errors = 0
  /\ resolving = NotResolving
  /\ InitWith([e \in Editors |-> IF e = "e1" THEN <<"p", "q">> ELSE <<>>])
  /\ PeekIdle

NextPass ==
  \/ \E k \in Kinds : KindChange("p", k)
  \/ \E k \in PassIds, i \in TaskIds : TaskExists(k, i)
  \/ \E k \in PassIds, i \in TaskIds : TaskStat(k, i)
  \/ \E k \in PassIds, i \in TaskIds : TaskRead(k, i)
  \/ \E k \in PassIds : Apply(k)

SpecPass == InitPass /\ [][NextPass]_vars

\* One editor holds a tag of p, a readable file; the user changes the
\* settings.
InitConfig ==
  /\ cfg \in Cfgs
  /\ kind = [p \in Paths |-> "file"]
  /\ CharsIdle
  /\ errors = 0
  /\ resolving = NotResolving
  /\ InitWith([e \in Editors |-> IF e = "e1" THEN <<"p">> ELSE <<>>])
  /\ PeekIdle

NextConfig ==
  \/ \E c \in Cfgs : Reconfigure(c)
  \/ TimerFire
  \/ \E k \in PassIds, i \in TaskIds : TaskExists(k, i)
  \/ \E k \in PassIds, i \in TaskIds : TaskStat(k, i)
  \/ \E k \in PassIds, i \in TaskIds : TaskRead(k, i)
  \/ \E k \in PassIds : Apply(k)

SpecConfig == InitConfig /\ [][NextConfig]_vars

\* The active document is drawn from SrcTexts, the pattern setting from
\* Patterns; what p holds is any and maxBytes is any; one scan and one
\* virtual preview run.
MaxPieces == 3

Pieces ==
  { << "<", "<", "a", ">", ">" >>, << "<", "<", " ", ">", ">" >>,
    << "<", "<" >>, << ">" >>, << "a" >> }

RECURSIVE Joined(_)
Joined(n) ==
  IF n = 0
    THEN { <<>> }
    ELSE Joined(n - 1) \cup { s \o c : s \in Joined(n - 1), c \in Pieces }

SrcTexts == Joined(MaxPieces)

InitText ==
  /\ cfg \in { [DefaultCfg EXCEPT !.maxBytes = b] : b \in {0, 1, DefaultMaxBytes} }
  /\ kind \in [Paths -> Kinds]
  /\ kind["q"] = "file"
  /\ pattern \in Patterns
  /\ srcText \in SrcTexts
  /\ matches = <<>>
  /\ preview = <<>>
  /\ substituted = <<>>
  /\ errors = 0
  /\ resolving = NotResolving
  /\ HighlighterIdle
  /\ PeekIdle

NextText ==
  \/ Scan
  \/ PreviewStart
  \/ PreviewStep
  \/ PreviewEnd

SpecText == InitText /\ [][NextText]_vars

\* The same with the default settings and p a readable file: the text and
\* the pattern are any.
InitScan ==
  /\ cfg = DefaultCfg
  /\ kind = [p \in Paths |-> "file"]
  /\ pattern \in Patterns
  /\ srcText \in SrcTexts
  /\ matches = <<>>
  /\ preview = <<>>
  /\ substituted = <<>>
  /\ errors = 0
  /\ resolving = NotResolving
  /\ HighlighterIdle
  /\ PeekIdle

SpecScan == InitScan /\ [][NextText]_vars

\* The two add-ons are separate extensions that share no state, and the
\* highlighter is looked at either tag by tag or character by character:
\* a behaviour is of one of the three while the others are as activate()
\* left them with no tag in sight. The highlighter works on one editor
\* with a tag of p or on the characters of <<a>>, the prompt builder on a
\* document with a tag; the user edits all of them.
TagA == << "<", "<", "a", ">", ">" >>

\* the highlighter with no tag in its editors and no pass to come
TagsIdle ==
  /\ text = [e \in Editors |-> <<>>]
  /\ passes = <<>>
  /\ ~timer
  /\ WATCHERS = EmptyMap
  /\ pending = {}

InitFrame ==
  /\ cfg = DefaultCfg
  /\ kind = [p \in Paths |-> "file"]
  /\ errors = 0
  /\ resolving = NotResolving
  /\ pattern = ""
  /\ matches = <<>>
  /\ preview = <<>>
  /\ substituted = <<>>
  /\ \/ /\ srcText = <<>>
        /\ active = "e1"
        /\ InitWith([e \in Editors |-> IF e = "e1" THEN <<"p">> ELSE <<>>])
        /\ PeekIdle
     \/ /\ srcText = TagA
        /\ HighlighterIdle
        /\ PeekIdle
     \/ /\ srcText = <<>>
        /\ HighlighterIdle
        /\ ptext = [d \in DocSet |-> IF d = "d2" THEN OneTag ELSE NoTags]
        /\ InitPeek

\* a step of the highlighter, tag by tag
StepTags ==
  \/ \E t \in Texts : Edit("e1", t)
  \/ TimerFire
  \/ FileChange("p")
  \/ WatchEvent("p")
  \/ \E k \in PassIds, i \in TaskIds : TaskExists(k, i)
  \/ \E k \in PassIds, i \in TaskIds : TaskStat(k, i)
  \/ \E k \in PassIds, i \in TaskIds : TaskRead(k, i)
  \/ \E k \in PassIds : Apply(k)

\* a step of the highlighter, character by character
StepChars ==
  \/ \E t \in {<<>>, TagA} : SrcEdit(t)
  \/ Scan
  \/ PreviewStart
  \/ PreviewStep
  \/ PreviewEnd

\* a step of the prompt builder
StepBuilder ==
  \/ \E t \in PTexts["d2"] : PeekEdit("d2", t)
  \/ \E i \in 1..2 : PeekStart("d2", i)
  \/ \E c \in cmds : PeekShown(c)
  \/ \E c \in cmds : PeekResume(c)
  \/ \E V \in SUBSET {"x", "y"} : ClosePreview(V)
  \/ \E j \in 1..(MaxRefresh + 1) : RefreshStep(j)

NextFrame ==
  \/ PeekIdle /\ CharsIdle /\ StepTags
  \/ PeekIdle /\ TagsIdle /\ StepChars
  \/ TagsIdle /\ CharsIdle /\ StepBuilder

SpecFrame == InitFrame /\ [][NextFrame]_vars

\* ------------------------------------------------------------- toAbsolute
\* the characters inner strings are made of here
InnerChars == {"a", ".", ":", "/", "\\"}

\* the longest inner string
MaxInner == 3

RECURSIVE Strings(_)
Strings(n) ==
  IF n = 0
    THEN { <<>> }
    ELSE Strings(n - 1)
           \cup { Append(s, c) : s \in Strings(n - 1), c \in InnerChars }

Inners == Strings(MaxInner)

\* the values of tagHighlighter.pathSeparator
Seps == {":", "."}

\* path.dirname(editor.document.uri.fsPath), as its segments
BaseDir == << << "d" >> >>

\* s.split(...) at every character of S, empty pieces kept
RECURSIVE SplitOn(_, _)
SplitOn(s, S) ==
  IF s = <<>>
    THEN << <<>> >>
    ELSE LET r == SplitOn(Tail(s), S)
         IN IF Head(s) \in S
              THEN << <<>> >> \o r
              ELSE << << Head(s) >> \o r[1] >> \o Tail(r)

\* a split at the forward slash alone
SplitForward(p) == SplitOn(p, {"/"})

\* p.split(/[\/\\]/)
SplitSlashes(p) == SplitOn(p, {"/", "\\"})

\* parts.flatMap(p => p.split(/[\/\\]/))
RECURSIVE FlatMapSlashes(_)
FlatMapSlashes(parts) ==
  IF parts = <<>>
    THEN <<>>
    ELSE SplitSlashes(Head(parts)) \o FlatMapSlashes(Tail(parts))

\* path.normalize of an absolute path given as its segments: "." is
\* dropped and ".." drops the segment before it
RECURSIVE Normalize(_, _)
Normalize(todo, done) ==
  IF todo = <<>> THEN done
  ELSE IF Head(todo) = << "." >> THEN Normalize(Tail(todo), done)
  ELSE IF Head(todo) = << ".", "." >>
    THEN Normalize(Tail(todo),
                   IF done = <<>> THEN <<>> ELSE SubSeq(done, 1, Len(done) - 1))
  ELSE Normalize(Tail(todo), Append(done, Head(todo)))

\* toAbsolute(baseDir, tagInner, sep); path.join puts a slash between the
\* segments, none of which holds one
toAbsolute(baseDir, tagInner, sep) ==
  LET parts == SelectSeq(FlatMapSlashes(SplitOn(tagInner, {sep})),
                         LAMBDA p : p # <<>>)
  IN Normalize(baseDir \o parts, <<>>)

\* a call of toAbsolute returns
Resolve ==
  /\ resolving.out = <<>>
  /\ resolving' = [resolving EXCEPT
                     !.out = << toAbsolute(BaseDir, resolving.inner,
                                           resolving.sep) >>]
  /\ UNCHANGED << thVars, pbVars, cfg, kind, chVars, errors >>

\* toAbsolute is called with any inner string and any separator
InitResolve ==
  /\ cfg = DefaultCfg
  /\ kind = [p \in Paths |-> "file"]
  /\ CharsIdle
  /\ errors = 0
  /\ resolving \in [inner : Inners, sep : Seps, out : { <<>> }]
  /\ HighlighterIdle
  /\ PeekIdle

SpecResolve == InitResolve /\ [][Resolve]_vars

InitP == InitPeek /\ HighlighterIdle /\ AuxIdle

NextPeek ==
  \/ \E V \in SUBSET {"x", "y"} : ClosePreview(V)
  \/ \E d \in DocSet, i \in 1..2 : PeekStart(d, i)
  \/ \E c \in cmds : PeekShown(c)
  \/ \E c \in cmds : PeekResume(c)
  \/ \E d \in DocSet : \E t \in PTexts[d] : PeekEdit(d, t)
  \/ \E j \in 1..(MaxRefresh + 1) : RefreshStep(j)

SpecPeek == InitP /\ [][NextPeek]_vars

\* The second document holds a tag; the command is called by the link and
\* with malformed arguments.
InitInvoke ==
  /\ ptext = [d \in DocSet |-> IF d = "d2" THEN OneTag ELSE NoTags]
  /\ InitPeek
  /\ HighlighterIdle
  /\ AuxIdle

NextInvoke ==
  \/ \E d \in DocSet, i \in 1..2 : \E a \in Invocations : PeekInvoke(d, i, a)
  \/ \E d \in DocSet, i \in 1..2 : PeekStart(d, i)
  \/ \E c \in cmds : PeekShown(c)
  \/ \E c \in cmds : PeekResume(c)
  \/ \E V \in SUBSET {"x", "y"} : ClosePreview(V)
  \/ \E j \in 1..(MaxRefresh + 1) : RefreshStep(j)

SpecInvoke == InitInvoke /\ [][NextInvoke]_vars

\* ================================================================ claims
\* the paths of the tags of t
Range(t) == {t[i] : i \in DOMAIN t}

\* p has a tag occurrence in a visible document
Visible(p) == \E e \in Editors : p \in Range(text[e])

\* this step is the tail of the k-th pass in flight
Completes(k) == k \in DOMAIN passes /\ passes' = Overtake(passes, k)

\* C1: stale-pass discard. When a pass of a document finishes after a pass
\* of the same document that started later has applied its decorations, it
\* leaves the decorations shown for the document as they are.
C1_StalePassDiscarded ==
  [][\A k \in PassIds :
       (Completes(k) /\ passes[k].late)
         => shown'[passes[k].ed] = shown[passes[k].ed]]_vars

\* C2: at most one pass per document is in flight. In every state, every
\* editor has at most one updateDecorations pass that has started and has
\* not applied its decorations.
C2_OnePassPerDocument ==
  \A e \in Editors :
    Cardinality({k \in DOMAIN passes : passes[k].ed = e}) <= 1

\* C3: cache correctness of readFileTruncated. A read answered from CACHE
\* returns the content the entry holds, and the entry's modification time
\* is the one the read's stat found; an entry's content is never older
\* than its modification time; and no read returns content older than the
\* file was when the read was issued.
C3_CacheCorrect ==
  [][/\ \A p \in DOMAIN CACHE' : CACHE'[p].text >= CACHE'[p].mtimeMs
     /\ \A k \in DOMAIN passes', i \in TaskIds :
          ( /\ i \in DOMAIN passes'[k].tasks
            /\ passes'[k].tasks[i].pc = "done"
            /\ passes'[k].tasks[i].ex
            /\ ~passes'[k].tasks[i].fail )
            => passes'[k].tasks[i].txt >= passes'[k].tasks[i].iss
     /\ \A k \in DOMAIN passes, i \in TaskIds :
          ( /\ Len(passes') = Len(passes)
            /\ i \in DOMAIN passes[k].tasks
            /\ passes[k].tasks[i].pc = "rstat"
            /\ passes'[k].tasks[i].pc = "done"
            /\ ~passes'[k].tasks[i].fail )
            => LET t == passes[k].tasks[i]
               IN /\ passes'[k].tasks[i].hit
                  /\ t.path \in DOMAIN CACHE
                  /\ passes'[k].tasks[i].txt = CACHE[t.path].text
                  /\ CACHE[t.path].mtimeMs \in t.iss..fileVer[t.path]
    ]_vars

\* C3 witness: a read issued after the file changed was answered from CACHE
C3_Witness ==
  \E k \in DOMAIN passes : \E i \in DOMAIN passes[k].tasks :
    LET t == passes[k].tasks[i]
    IN t.pc = "done" /\ t.hit /\ t.iss > 1 /\ t.txt = fileVer[t.path]

\* C4: a pass that finishes leaves the watch registration and the cache
\* entry of p in place when a tag of a visible document resolves to p.
C4_SharedWatchKept ==
  [][\A k \in PassIds, p \in Paths :
       (Completes(k) /\ Visible(p))
         => /\ p \in DOMAIN WATCHERS => p \in DOMAIN WATCHERS'
            /\ p \in DOMAIN CACHE => p \in DOMAIN CACHE']_vars

\* C5: when a pass finishes that has no occurrence of p, and no visible
\* document has one, then WATCHERS has no entry for p, no watcher of p is
\* left undisposed and CACHE has no entry for p.
C5_WatchReleased ==
  [][\A k \in PassIds, p \in Paths :
       (Completes(k) /\ p \notin Range(passes[k].snap) /\ ~Visible(p))
         => /\ p \notin DOMAIN WATCHERS'
            /\ live'[p] = 0
            /\ p \notin DOMAIN CACHE']_vars

\* C6: reference counting. Every registered path has refs >= 1;
\* releaseWatcher of an unregistered path changes nothing; the release of
\* the last reference removes the WATCHERS and CACHE entries, disposes the
\* watcher and leaves no event to deliver; and only registered paths have
\* an event waiting for delivery.
C6_RefCounting ==
  /\ \A p \in DOMAIN WATCHERS : WATCHERS[p].refs >= 1
  /\ \A p \in Paths \ DOMAIN WATCHERS : ReleaseWatcher(Tables, p) = Tables
  /\ \A p \in DOMAIN WATCHERS :
       WATCHERS[p].refs = 1 =>
         LET s == ReleaseWatcher(Tables, p)
         IN /\ p \notin DOMAIN s.W
            /\ p \notin DOMAIN s.C
            /\ s.L[p] = 0
            /\ p \notin s.P
  /\ pending \subseteq DOMAIN WATCHERS

\* C6 witness: the content of p is drawn in an editor and the last
\* reference of p has been released since
C6_Witness ==
  /\ \E e \in Editors : \E i \in DOMAIN shown[e] :
       shown[e][i].path = "p" /\ shown[e][i].out = "text"
  /\ "p" \notin DOMAIN WATCHERS
  /\ live["p"] = 0
  /\ "p" \notin DOMAIN CACHE

\* the watcher of p delivers an event in this step
Delivers(p) ==
  p \in pending /\ pending' = pending \ {p} /\ Len(passes') = Len(passes) + 1

\* C7: one watcher per path. A path has an undisposed watcher exactly when
\* it is registered in WATCHERS, and then exactly one; an event delivered
\* by the watcher of p removes the CACHE entry of p and no other.
C7_OneWatchPerPath ==
  [][/\ \A p \in Paths :
          live'[p] = IF p \in DOMAIN WATCHERS' THEN 1 ELSE 0
     /\ \A p \in Paths : Delivers(p) => CACHE' = MapDelete(CACHE, p)
    ]_vars

\* C7 witness: two references share the one watcher of p, and its event
\* has removed the entry of p while that of q stays
C7_Witness ==
  /\ Refs("p") >= 2
  /\ live["p"] = 1
  /\ fileVer["p"] > 1
  /\ "p" \notin pending
  /\ "p" \notin DOMAIN CACHE
  /\ "q" \in DOMAIN CACHE

\* C8: live update. When nothing is left to run (no pass in flight, no
\* event to deliver, no timer pending), every editor that shows the content
\* of a target file shows the file's current content.
C8_LiveUpdate ==
  (passes = <<>> /\ pending = {} /\ ~timer)
    => \A e \in Editors : \A i \in DOMAIN shown[e] :
         shown[e][i].out = "text" => shown[e][i].txt = fileVer[shown[e][i].path]


\* the keys of the tags of open documents that resolve to the target of a
\* visible preview editor
PreviewedKeys ==
  UNION { { makeKey(d, ptext[d].tags[n].at) :
              n \in {m \in DOMAIN ptext[d].tags :
                       ptext[d].tags[m].target \in previews} }
          : d \in DocSet }

\* C9: reconciliation totality. When the handler of visible-editor changes
\* has run, expandedKeys is exactly the set of keys of the tags of open
\* documents that resolve to the target of a visible preview editor.
C9_ReconciliationTotal ==
  [][previews' # previews => expandedKeys' = PreviewedKeys']_vars

\* C10: no stale expanded keys. In every state, every key in expandedKeys
\* that is the key of a tag belongs to a tag whose target has a visible
\* preview editor.
C10_NoStaleKeys ==
  \A d \in DocSet : \A n \in DOMAIN ptext[d].tags :
    makeKey(d, ptext[d].tags[n].at) \in expandedKeys
      => ptext[d].tags[n].target \in previews

\* C11: debouncing. A text-edit event starts no recomputation itself: the
\* refresh passes in flight and the decorations shown are as before the
\* event, and the recomputation comes once, from the timer.
C11_EditsDebounced ==
  [][ptext' # ptext
       => /\ refreshes' = refreshes
          /\ fileDecos' = fileDecos
          /\ expDecos' = expDecos]_vars

\* C12: a configuration change bypasses debouncing. The step that changes
\* the settings starts the recomputation itself and leaves the content
\* cache empty.
C12_ConfigImmediate ==
  [][cfg' # cfg => (Len(passes') > Len(passes) /\ CACHE' = EmptyMap)]_vars

\* the occurrences whose callback has finished after pathExists answered
\* false, as <<pass, occurrence>>
MissingDone ==
  { ki \in (DOMAIN passes) \X TaskIds :
      /\ ki[2] \in DOMAIN passes[ki[1]].tasks
      /\ passes[ki[1]].tasks[ki[2]].pc = "done"
      /\ ~passes[ki[1]].tasks[ki[2]].ex }

\* C13 (as stated): an occurrence whose path does not exist gets no
\* instruction and no watcher when onlyHighlightExistingPaths is enabled,
\* and an instruction carrying the missing placeholder when it is disabled.
C13_MissingAsStated ==
  \A ki \in MissingDone :
    LET ps == passes[ki[1]]
        t == ps.tasks[ki[2]]
    IN /\ t.path \notin ps.needed
       /\ t.out = IF ps.cfg.onlyExisting THEN "none" ELSE "missing"

\* C13 (amended): an occurrence whose path does not exist gets no
\* instruction and no watcher when onlyHighlightExistingPaths is enabled;
\* when it is disabled it gets an instruction carrying the missing
\* placeholder if showInline or showHover is enabled, and no instruction
\* if both are disabled.
C13_MissingTargets ==
  \A ki \in MissingDone :
    LET ps == passes[ki[1]]
        t == ps.tasks[ki[2]]
    IN /\ t.path \notin ps.needed
       /\ t.out = IF ps.cfg.onlyExisting THEN "none"
                  ELSE IF ps.cfg.showInline \/ ps.cfg.showHover
                    THEN "missing" ELSE "none"

\* C13 witness: a pass has drawn the missing placeholder for p next to the
\* content of q, and p has no watcher
C13_Witness ==
  /\ Len(shown["e1"]) = 2
  /\ shown["e1"][1].out = "missing"
  /\ shown["e1"][2].out = "text"
  /\ "p" \notin DOMAIN WATCHERS

\* the start offsets of the tags of txt
TagOffsets(txt) == { txt.tags[n].at : n \in DOMAIN txt.tags }

\* C14: existing targets. A refresh pass that completes highlights the
\* tags of the text it scanned, every one of them (all targets exist).
C14_AllTagsHighlighted ==
  [][\A j \in DOMAIN refreshes :
       refreshes' = RemoveAt(refreshes, j)
         => fileDecos'[refreshes[j].doc] = TagOffsets(refreshes[j].text2)]_vars

\* C15: byte bound. The text readFileTruncated returns to a pass has at
\* most as many bytes as the maxBytes the pass read from the settings.
C15_ByteBound ==
  \A k \in DOMAIN passes : \A i \in DOMAIN passes[k].tasks :
    passes[k].tasks[i].pc = "done"
      => passes[k].tasks[i].len <= passes[k].cfg.maxBytes

\* C18: per-occurrence failure isolation. No error of stat or read on the
\* target of one occurrence escapes its callback (so Promise.all resolves
\* and the pass applies), and whatever happens to p, the occurrence of the
\* readable file q gets the instruction it gets when nothing fails: the
\* content of q, read without error.
C18_FailureIsolated ==
  \A k \in DOMAIN passes : \A i \in DOMAIN passes[k].tasks :
    LET t == passes[k].tasks[i]
    IN /\ t.pc \in {"exists", "rstat", "rread", "done"}
       /\ (t.pc = "done" /\ t.path = "q")
            => /\ ~t.fail
               /\ t.out = Render(passes[k].cfg, TRUE)
               /\ t.txt = fileVer["q"]

\* C18 witness: a pass has applied its decorations, the read of p having
\* failed (empty text) and the content of q being drawn
C18_Witness ==
  /\ Len(shown["e1"]) = 2
  /\ kind["p"] # "file"
  /\ shown["e1"][1].out = "text"
  /\ shown["e1"][1].txt = 0
  /\ shown["e1"][2].out = "text"
  /\ shown["e1"][2].txt = fileVer["q"]

\* C19: read failure degrades to not-existing. An occurrence whose target
\* passed the existence check and whose read failed is excluded when
\* onlyHighlightExistingPaths is enabled and gets the missing placeholder
\* otherwise.
C19_ReadFailureAsMissing ==
  \A k \in DOMAIN passes : \A i \in DOMAIN passes[k].tasks :
    LET t == passes[k].tasks[i]
    IN (t.pc = "done" /\ t.ex /\ t.fail)
         => t.out = IF passes[k].cfg.onlyExisting THEN "none" ELSE "missing"

\* C16: pattern fallback. When the configured pattern does not compile,
\* the scan finds exactly the tags that the documented default of the
\* pattern setting, <<[^<>]+?>>, finds.
C16_FallbackIsDocumented ==
  (matches # <<>> /\ ~Compiles(Configured(pattern)))
    => matches[1] = ScanText(Regex(DocumentedPattern), srcText, 0)

\* what a tag is to be replaced by: the whole content of the file it
\* names, the marker when nothing is there (nothing for what exists and
\* has no content to read)
Replacement(inner) ==
  IF KindOf(inner) = "file" THEN Bytes(fileVer["p"])
  ELSE IF Exists(KindOf(inner)) THEN <<>>
  ELSE MissingMarker(inner)

\* s from offset from on, the occurrences ms replaced in order
RECURSIVE Substituted(_, _, _)
Substituted(s, ms, from) ==
  IF ms = <<>>
    THEN SubSeq(s, from + 1, Len(s))
    ELSE SubSeq(s, from + 1, ms[1].index) \o Replacement(ms[1].inner)
           \o Substituted(s, Tail(ms), ms[1].index + ms[1].len)

\* C20: virtual preview. The text of the virtual document is the source
\* text with every tag occurrence replaced, in order, by the full content
\* of its target if it exists and by <<MISSING:inner>> if it does not; the
\* text outside occurrences is kept, and tags inside substituted content
\* are not expanded.
C20_VirtualPreview ==
  substituted # <<>>
    => substituted[1]
         = Substituted(srcText,
                       ScanText(safeRegex(Configured(pattern)), srcText, 0), 0)

\* C17: malformed peek-open invocation. A call of the peek-open command
\* with malformed arguments reports an error and ends with expandedKeys
\* unchanged and no refresh started: the step that ends such a call shows
\* an error message and leaves the keys and the decorations' refreshes
\* alone, and so does every step that shows an error message.
C17_MalformedAborts ==
  [][ /\ \A c \in cmds :
           (c.malformed /\ c.pc = "resume" /\ c \notin cmds')
             => /\ errors' = errors + 1
                /\ expandedKeys' = expandedKeys
                /\ refreshes' = refreshes
      /\ errors' # errors
           => /\ expandedKeys' = expandedKeys
              /\ refreshes' = refreshes
              /\ cmds' = cmds ]_vars

\* a step in which the user edits a document
UserEdit ==
  \/ \E e \in Editors, t \in Texts : Edit(e, t)
  \/ \E d \in DocSet : \E t \in PTexts[d] : PeekEdit(d, t)
  \/ \E t \in SrcTexts : SrcEdit(t)

\* C21: no action of the add-ons changes the text of a document. Every
\* step that changes the text of an editor of the highlighter, of a
\* document of the prompt builder or of the document the virtual preview
\* is built from is an edit of the user.
C21_TextOnlyEdited ==
  [][(text' # text \/ ptext' # ptext \/ srcText' # srcText) => UserEdit]_vars

\* C21 witness: the virtual preview of the text <<a>> is built, with the
\* content of the file in it, and the text is as it was
C21_Witness ==
  /\ substituted = << Bytes(fileVer["p"]) >>
  /\ "p" \in DOMAIN CACHE
  /\ srcText = TagA

\* the occurrences the scan has pushed, once it ran
Occurrences == IF matches = <<>> THEN <<>> ELSE matches[1]

\* C22: for every text and every pattern that compiles, patterns that
\* match the empty string included, every occurrence of the scan loop has
\* startOffset < endOffset <= length of the text, and each occurrence
\* starts at or after the end of the one before it.
C22_OccurrencesWellFormed ==
  /\ \A n \in DOMAIN Occurrences :
       /\ Occurrences[n].index < Occurrences[n].index + Occurrences[n].len
       /\ Occurrences[n].index + Occurrences[n].len <= Len(srcText)
  /\ \A n \in DOMAIN Occurrences :
       n > 1 => Occurrences[n - 1].index + Occurrences[n - 1].len
                  <= Occurrences[n].index

\* C26: the scan loop ends for every text and every pattern that compiles:
\* a pass pushes at most length + 1 occurrences and a virtual preview takes
\* at most length + 1 turns of its loop, and each turn moves lastIndex on.
C26_ScanTerminates ==
  /\ Len(Occurrences) <= Len(srcText) + 1
  /\ preview # <<>>
       => /\ preview[1].turns <= Len(srcText) + 1
          /\ preview[1].turns <= preview[1].lastIndex

\* C26 witness: the scan has pushed a match of no character and ended, and
\* so has the loop of the virtual preview
C26_Witness ==
  /\ pattern = StarPattern
  /\ Len(srcText) > 0
  /\ \E n \in DOMAIN Occurrences : Occurrences[n].len = 0
  /\ Len(Occurrences) = Len(srcText) + 1
  /\ substituted # <<>>

\* C27: a match with nothing between its delimiters is no occurrence: the
\* scan pushes no occurrence with an empty inner string, and the virtual
\* preview puts nothing in the place of such a match.
C27_EmptyInnerSkipped ==
  /\ \A n \in DOMAIN Occurrences : Occurrences[n].inner # <<>>
  /\ (pattern = EmptyTagPattern /\ substituted # <<>>
        /\ srcText = << "<", "<", ">", ">" >>)
       => substituted[1] = srcText

\* C23: matcher determinism under concurrent scans. A scan of an unchanged
\* text yields each tag of the text once and in document order, whatever
\* other scans are suspended or run in between: every match of an async
\* body of a refresh is the tag after its previous one, and the body ends
\* after the last tag of its text.
C23_ScansIndependent ==
  [][\A j \in DOMAIN refreshes :
       /\ (Len(refreshes') = Len(refreshes)
             /\ refreshes'[j].cur # refreshes[j].cur)
            => refreshes'[j].cur = refreshes[j].cur + 1
       /\ refreshes' = RemoveAt(refreshes, j)
            => refreshes[j].cur = Len(refreshes[j].text2.tags)]_vars

\* the segments of s: what is left between the characters of S
RECURSIVE Tokens(_, _, _)
Tokens(s, S, cur) ==
  LET done == IF cur = <<>> THEN <<>> ELSE << cur >>
  IN IF s = <<>> THEN done
     ELSE IF Head(s) \in S THEN done \o Tokens(Tail(s), S, <<>>)
     ELSE Tokens(Tail(s), S, Append(cur, Head(s)))

\* C24: path resolution is insensitive to separator spelling. Every inner
\* string with the segments of the resolved one, split at the configured
\* separator, the slash and the backslash, resolves to the same path.
C24_SeparatorSpelling ==
  resolving.out # <<>>
    => \A other \in Inners :
         Tokens(other, {resolving.sep, "/", "\\"}, <<>>)
             = Tokens(resolving.inner, {resolving.sep, "/", "\\"}, <<>>)
           => toAbsolute(BaseDir, other, resolving.sep) = resolving.out[1]

\* C24 witness: a\a is resolved to the path of a/a and a:a
C24_Witness ==
  /\ resolving.inner = << "a", "\\", "a" >>
  /\ resolving.sep = ":"
  /\ resolving.out = << BaseDir \o << << "a" >>, << "a" >> >> >>

\* C25: every edit of a document shown in a visible editor leads to a
\* recomputation for that document, active or not: the step of the edit
\* leaves the recomputation of the visible editors scheduled.
C25_EditsRecomputed ==
  [][\A e \in Editors : text'[e] # text[e] => timer']_vars

C29_CachedIsWatched == DOMAIN CACHE \subseteq DOMAIN WATCHERS

====
